---- MODULE Spec2Model ----
(***************************************************************************)
(* A model of the ElementsWrapper class of lib/wrapper.js.                 *)
(*                                                                         *)
(* lib/wrapper.js holds two definitions of the class: the first one        *)
(* (lines 25-881, release 1.1.0) and a second one (lines 907-1585,         *)
(* release 1.0.0).  Every wrapper instance of the model records in its     *)
(* field cls which of the two definitions built it; operations whose code  *)
(* differs between the definitions branch on that field.                   *)
(*                                                                         *)
(* The DOM is a forest of nodes.  The collaborators of @lumjs/web-core     *)
(* (isCollection, addContent) and the DOM primitives (querySelector,       *)
(* querySelectorAll, cloneNode, children) are modelled by what they do on  *)
(* that forest.  The constructor's string inputs (a tag name, an HTML      *)
(* snippet handed to parseHTML) are outside the model.                     *)
(***************************************************************************)
EXTENDS Integers, Sequences, FiniteSets, TLC

\* Bounds of the model.
MaxNodes == 12   \* size of the node pool (initial document plus clones)
MaxInst == 3     \* number of wrapper instances alive in one behaviour
MaxLen == 2      \* longest Array handed to the constructor
MaxOps == 2      \* operations called on the instances in one behaviour

Nodes == 1..MaxNodes

VARIABLES
  kind,       \* kind[n]: "free" (not allocated), "HTMLElement",
              \* "SVGElement" or "Text"
  kids,       \* kids[n]: the child nodes of n, in document order
  className,  \* className[n]: the class attribute of element n
  idAttr,     \* idAttr[n]: the id attribute of element n
  itemCheck,  \* does U.isCollection test the items of an Array against ct?
  inst,       \* the wrapper instances built so far, in construction order
  ret,        \* the operation last called: receiver, arguments, outcome
  log,        \* the collaborator / DOM calls made by that operation
  nops        \* the number of operations called on instances so far

vars == <<kind, kids, className, idAttr, itemCheck, inst, ret, log, nops>>

-----------------------------------------------------------------------------
(* JavaScript values.  One record shape for all of them:                   *)
(*   t = "undefined" | "null" | "node" | "array" | "nodelist" | "live"     *)
(*       | "inst" | "string" | "number" | "function"                       *)
(*   n     : the node (t = "node"), the parent whose children are          *)
(*           the live HTMLCollection (t = "live"), the instance index      *)
(*           (t = "inst") or the number (t = "number")                     *)
(*   items : the members of an Array or of a static NodeList               *)
(*   s     : the text of a string, the name of a function                  *)

Undefined == [t |-> "undefined", n |-> 0, items |-> <<>>, s |-> ""]
Null == [t |-> "null", n |-> 0, items |-> <<>>, s |-> ""]
NodeV(n) == [t |-> "node", n |-> n, items |-> <<>>, s |-> ""]
ArrayV(q) == [t |-> "array", n |-> 0, items |-> q, s |-> ""]
NodeListV(q) == [t |-> "nodelist", n |-> 0, items |-> q, s |-> ""]
LiveV(n) == [t |-> "live", n |-> n, items |-> <<>>, s |-> ""]
InstV(i) == [t |-> "inst", n |-> i, items |-> <<>>, s |-> ""]
StringV(x) == [t |-> "string", n |-> 0, items |-> <<>>, s |-> x]
NumberV(k) == [t |-> "number", n |-> k, items |-> <<>>, s |-> ""]
FunctionV(x) == [t |-> "function", n |-> 0, items |-> <<>>, s |-> x]

\* the kinds of node that are elements
ElementKinds == {"HTMLElement", "SVGElement"}

\* is the node n of the document an element?
IsElement(kn, n) == kn[n] \in ElementKinds

\* the subsequence of s whose entries are in the set S
SelectSeqOf(s, S) ==
  LET Test(x) == x \in S
  IN SelectSeq(s, Test)

Range(s) == {s[i] : i \in DOMAIN s}

\* node.children: the child nodes that are elements
Children(kn, kd, n) ==
  LET Test(m) == IsElement(kn, m)
  IN SelectSeq(kd[n], Test)

\* the members of a collection value, as they are when it is read
Members(kn, kd, v) ==
  IF v.t = "live" THEN Children(kn, kd, v.n) ELSE v.items

\* x instanceof ct, for the classes HTMLElement < Element < Node < Object
\* (an SVGElement is an Element, a Text is a Node)
InstanceOf(kn, v, ct) ==
  CASE v.t = "node" ->
         CASE kn[v.n] = "HTMLElement" ->
                ct \in {"HTMLElement", "Element", "Node", "Object"}
           [] kn[v.n] = "SVGElement" -> ct \in {"Element", "Node", "Object"}
           [] OTHER -> ct \in {"Node", "Object"}
    [] v.t \in {"array", "nodelist", "live", "inst"} -> ct = "Object"
    [] OTHER -> FALSE

\* U.isCollection(wraps, ct) of @lumjs/web-core: an HTMLCollection or a
\* NodeList is a collection; so is an Array, whose items the library may
\* or may not test against ct (itemCheck).
isCollection(kn, chk, v, ct) ==
  CASE v.t \in {"nodelist", "live"} -> TRUE
    [] v.t = "array" ->
         chk => \A i \in DOMAIN v.items : InstanceOf(kn, NodeV(v.items[i]), ct)
    [] OTHER -> FALSE

-----------------------------------------------------------------------------
(* Option objects: a function from the keys that are present to their      *)
(* values "undefined", "true", "false" or a class name.                    *)

OptKeys ==
  {"nodeClass", "separateSingle", "expandChildren", "wrapQueries",
   "queryDetails", "recompileOptions", "WRAPPER_OPTS"}

NoOptions == [k \in {} |-> "undefined"]

\* options.k
Opt(o, k) == IF k \in DOMAIN o THEN o[k] ELSE "undefined"

\* options.k ?? d
OrDefault(o, k, d) == IF Opt(o, k) = "undefined" THEN d ELSE Opt(o, k)

\* the truth value of an option value in a condition
Truthy(x) == x \notin {"undefined", "false"}

-----------------------------------------------------------------------------
(* The constructor.                                                        *)

\* the wraps stored by the constructor (lines 88-94)
CtorWraps(kn, kd, chk, wraps, options) ==
  LET ct == OrDefault(options, "nodeClass", "Element")
      ss == OrDefault(options, "separateSingle", "true")
  IN IF Truthy(ss) /\ isCollection(kn, chk, wraps, ct)
        /\ Len(Members(kn, kd, wraps)) = 1
     THEN NodeV(Members(kn, kd, wraps)[1])
     ELSE wraps

\* a constructor that separates the single element and forgets to clear
\* the flag
CtorIsCollection_KeepFlag(kn, kd, chk, wraps, options) ==
  isCollection(kn, chk, wraps, OrDefault(options, "nodeClass", "Element"))

\* the isCollection flag stored by the constructor (lines 88-94)
CtorIsCollection(kn, kd, chk, wraps, options) ==
  LET ct == OrDefault(options, "nodeClass", "Element")
      ss == OrDefault(options, "separateSingle", "true")
  IN isCollection(kn, chk, wraps, ct)
     /\ ~(Truthy(ss) /\ Len(Members(kn, kd, wraps)) = 1)

\* the isValid flag stored by the constructor (lines 96-100)
CtorIsValid(kn, kd, chk, wraps, options) ==
  LET ct == OrDefault(options, "nodeClass", "Element")
      w == CtorWraps(kn, kd, chk, wraps, options)
  IN (CtorIsCollection(kn, kd, chk, wraps, options)
        /\ Len(Members(kn, kd, w)) > 0)
     \/ InstanceOf(kn, w, ct)

\* new ElementsWrapper(wraps, options), by the class definition cls
constructor(kn, kd, chk, cls, wraps, options) ==
  [cls |-> cls,
   wrapped |-> wraps,
   options |-> options,
   wraps |-> CtorWraps(kn, kd, chk, wraps, options),
   isCollection |-> CtorIsCollection(kn, kd, chk, wraps, options),
   isValid |-> CtorIsValid(kn, kd, chk, wraps, options)]

-----------------------------------------------------------------------------
(* DOM primitives on the forest.                                           *)

\* node.parentNode, 0 for none
Parent(kd, n) ==
  LET Has(p) == \E i \in DOMAIN kd[p] : kd[p][i] = n
  IN IF \E p \in Nodes : Has(p) THEN CHOOSE p \in Nodes : Has(p) ELSE 0

RECURSIVE SubtreeSeq(_, _, _)
\* n and its descendants in document order; d bounds the depth
SubtreeSeq(kd, n, d) ==
  LET RECURSIVE Over(_)
      Over(s) == IF s = <<>> \/ d = 0 THEN <<>>
                 ELSE SubtreeSeq(kd, Head(s), d - 1) \o Over(Tail(s))
  IN <<n>> \o Over(kd[n])

\* the element descendants of n in document order
Descendants(kn, kd, n) ==
  LET Test(m) == IsElement(kn, m)
  IN SelectSeq(Tail(SubtreeSeq(kd, n, MaxNodes)), Test)

\* node.querySelectorAll(sel): the selector sel selects the elements whose
\* class attribute is sel
querySelectorAll(kn, kd, cn, n, sel) ==
  LET Test(m) == cn[m] = sel
  IN SelectSeq(Descendants(kn, kd, n), Test)

\* node.querySelector(sel): the first match, or null
querySelector(kn, kd, cn, n, sel) ==
  LET all == querySelectorAll(kn, kd, cn, n, sel)
  IN IF all = <<>> THEN Null ELSE NodeV(all[1])

\* the nodes of the pool not allocated yet, smallest first
FreeSeq(kn) ==
  LET Free(m) == kn[m] = "free"
  IN SelectSeq([i \in 1..MaxNodes |-> i], Free)

\* the position of x in the sequence s (0 when absent)
IndexOf(s, x) ==
  IF \E i \in DOMAIN s : s[i] = x
  THEN CHOOSE i \in DOMAIN s : s[i] = x /\ \A j \in 1..(i-1) : s[j] # x
  ELSE 0

\* s with x inserted so that it becomes entry number i
InsertAt(s, i, x) == SubSeq(s, 1, i - 1) \o <<x>> \o SubSeq(s, i, Len(s))

\* s without the entry x
Without(s, x) ==
  LET Test(y) == y # x
  IN SelectSeq(s, Test)

-----------------------------------------------------------------------------
(* The document as one value, for the operations that change it:           *)
(* d = [kind |-> .., kids |-> .., className |-> .., id |-> ..].            *)

Doc(kn, kd, cn, ids) == [kind |-> kn, kids |-> kd, className |-> cn, id |-> ids]

\* can node.cloneNode(true) be allocated in the pool?
CanClone(d, n) ==
  Len(SubtreeSeq(d.kids, n, MaxNodes)) <= Len(FreeSeq(d.kind))

\* the node that node.cloneNode(true) returns: the first free node
CloneRoot(d, n) == FreeSeq(d.kind)[1]

\* the document after node.cloneNode(true): a copy of the subtree of n,
\* node by node in document order, on the first free nodes; the copy has
\* no parent
cloneNode(d, n) ==
  LET src == SubtreeSeq(d.kids, n, MaxNodes)
      free == FreeSeq(d.kind)
      new(m) == free[IndexOf(src, m)]
      fresh == {free[i] : i \in 1..Len(src)}
      old(m) == src[IndexOf(free, m)]
  IN [kind |-> [m \in Nodes |->
                  IF m \in fresh THEN d.kind[old(m)] ELSE d.kind[m]],
      kids |-> [m \in Nodes |->
                  IF m \in fresh
                  THEN [i \in DOMAIN d.kids[old(m)] |-> new(d.kids[old(m)][i])]
                  ELSE d.kids[m]],
      className |-> [m \in Nodes |->
                  IF m \in fresh THEN d.className[old(m)]
                  ELSE d.className[m]],
      id |-> [m \in Nodes |->
                  IF m \in fresh THEN d.id[old(m)] ELSE d.id[m]]]

RECURSIVE SameTree(_, _, _, _)
\* are the subtrees of a and b equal node by node (kind, class, children)?
SameTree(d, a, b, depth) ==
  /\ d.kind[a] = d.kind[b]
  /\ d.className[a] = d.className[b]
  /\ d.id[a] = d.id[b]
  /\ Len(d.kids[a]) = Len(d.kids[b])
  /\ depth > 0
  /\ \A i \in DOMAIN d.kids[a] :
       SameTree(d, d.kids[a][i], d.kids[b][i], depth - 1)

\* is a the node n or one of its ancestors?
RECURSIVE IsInclusiveAncestor(_, _, _, _)
IsInclusiveAncestor(kd, a, n, depth) ==
  \/ a = n
  \/ /\ depth > 0
     /\ Parent(kd, n) # 0
     /\ IsInclusiveAncestor(kd, a, Parent(kd, n), depth - 1)

Positions == {"beforebegin", "afterbegin", "beforeend", "afterend"}

\* the outcome of target.insertAdjacentElement(pos, el):
\* "TypeError" (the target is no element), "HierarchyRequestError" (el
\* would become its own descendant), "noop" (a sibling position on a
\* target without parent, or el placed next to itself) or "ok"
InsertOutcome(d, target, pos, el) ==
  LET p == IF pos \in {"beforebegin", "afterend"}
           THEN Parent(d.kids, target) ELSE target
  IN CASE ~IsElement(d.kind, target) -> "TypeError"
       [] p = 0 -> "noop"
       [] IsInclusiveAncestor(d.kids, el, p, MaxNodes) -> "HierarchyRequestError"
       [] el = target -> "noop"
       [] OTHER -> "ok"

\* the child lists after target.insertAdjacentElement(pos, el): el leaves
\* its old parent and enters the new one at the position
insertAdjacentElement(d, target, pos, el) ==
  IF InsertOutcome(d, target, pos, el) # "ok" THEN d.kids
  ELSE
    LET p == IF pos \in {"beforebegin", "afterend"}
             THEN Parent(d.kids, target) ELSE target
        k1 == [m \in Nodes |-> Without(d.kids[m], el)]
        at == CASE pos = "beforebegin" -> IndexOf(k1[p], target)
                [] pos = "afterend" -> IndexOf(k1[p], target) + 1
                [] pos = "afterbegin" -> 1
                [] OTHER -> Len(k1[p]) + 1
    IN [k1 EXCEPT ![p] = InsertAt(k1[p], at, el)]

-----------------------------------------------------------------------------
(* The Content Inserter of @lumjs/web-core, content.addContent.            *)

\* the outcome of inserting the markup of a string at the position: the
\* markup becomes one new element, taken from the pool
HTMLOutcome(d, target, pos) ==
  CASE ~IsElement(d.kind, target) -> "TypeError"
    [] pos \in {"beforebegin", "afterend"} /\ Parent(d.kids, target) = 0
         -> "NoModificationAllowedError"
    [] FreeSeq(d.kind) = <<>> -> "PoolExhausted"
    [] OTHER -> "ok"

\* the document after target.insertAdjacentHTML(pos, markup)
insertAdjacentHTML(d, target, pos) ==
  IF HTMLOutcome(d, target, pos) # "ok" THEN d
  ELSE LET el == FreeSeq(d.kind)[1]
           d1 == [d EXCEPT !.kind[el] = "HTMLElement", !.className[el] = "",
                           !.id[el] = ""]
       IN [d1 EXCEPT !.kids = insertAdjacentElement(d1, target, pos, el)]

RECURSIVE InsertEach(_, _, _, _)
\* the elements of the sequence s inserted one after the other;
\* the result is [err |-> .., d |-> ..]
InsertEach(d, target, pos, s) ==
  IF s = <<>> THEN [err |-> "none", d |-> d]
  ELSE LET o == InsertOutcome(d, target, pos, Head(s))
           d1 == [d EXCEPT !.kids = insertAdjacentElement(d, target, pos, Head(s))]
       IN IF o \in {"ok", "noop"} THEN InsertEach(d1, target, pos, Tail(s))
          ELSE [err |-> o, d |-> d]

\* addContent(node, content, pos): [err |-> .., d |-> the document after]
addContent(d, node, content, pos) ==
  CASE content.t = "string" ->
         [err |-> IF HTMLOutcome(d, node, pos) = "ok" THEN "none"
                  ELSE HTMLOutcome(d, node, pos),
          d |-> insertAdjacentHTML(d, node, pos)]
    [] content.t = "node" /\ IsElement(d.kind, content.n) ->
         InsertEach(d, node, pos, <<content.n>>)
    [] content.t \in {"array", "nodelist", "live"} ->
         InsertEach(d, node, pos, Members(d.kind, d.kids, content))
    [] OTHER -> [err |-> "TypeError", d |-> d]

\* one entry of the log
Call(fn, node, arg, pos) == [fn |-> fn, node |-> node, arg |-> arg, pos |-> pos]

-----------------------------------------------------------------------------
(* getOptions and _make.                                                   *)

\* Object.assign(a, b): the keys of b override those of a
ObjectAssign(a, b) ==
  [k \in (DOMAIN a) \cup (DOMAIN b) |-> IF k \in DOMAIN b THEN b[k] ELSE a[k]]

\* compiledOpts[WRAPPER_OPTS] = true
Marked(o) ==
  [k \in (DOMAIN o) \cup {"WRAPPER_OPTS"} |->
     IF k = "WRAPPER_OPTS" THEN "true" ELSE o[k]]

\* the value of the parameter recompile: its default is
\* this.options.recompileOptions
Recompile(self, recompile) ==
  IF recompile = "undefined" THEN Opt(self.options, "recompileOptions")
  ELSE recompile

\* a test of line 365 that does not look at recompile
AlreadyCompiled_NoRecompile(self, localOpts, recompile) ==
  Truthy(Opt(localOpts, "WRAPPER_OPTS"))

\* does getOptions return localOpts itself (line 365)?  An absent
\* localOpts is modelled by NoOptions: it is no object, and Object.assign
\* skips it.
AlreadyCompiled(self, localOpts, recompile) ==
  Truthy(Opt(localOpts, "WRAPPER_OPTS")) /\ ~Truthy(Recompile(self, recompile))

\* a getOptions that merges in the wrong order: the instance's options
\* override the local ones
getOptions_BaseWins(self, localOpts, recompile, mark) ==
  IF AlreadyCompiled(self, localOpts, recompile) THEN localOpts
  ELSE LET compiledOpts == ObjectAssign(ObjectAssign(NoOptions, localOpts),
                                        self.options)
       IN IF mark THEN Marked(compiledOpts) ELSE compiledOpts

\* getOptions(localOpts, recompile, mark): the object returned
getOptions(self, localOpts, recompile, mark) ==
  IF AlreadyCompiled(self, localOpts, recompile) THEN localOpts
  ELSE LET compiledOpts == ObjectAssign(ObjectAssign(NoOptions, self.options),
                                        localOpts)
       IN IF mark THEN Marked(compiledOpts) ELSE compiledOpts

\* which object getOptions returns: the argument localOpts itself (line
\* 367) or the object compiledOpts built by the call (lines 370-373)
getOptionsRef(self, localOpts, recompile, mark) ==
  IF AlreadyCompiled(self, localOpts, recompile) THEN "localOpts"
  ELSE "compiledOpts"

\* this.options after getOptions: the target of Object.assign is a new
\* object, the instance's record is only read
getOptionsBase(self, localOpts, recompile, mark) == self.options

\* the options _make hands to the constructor; given tells whether the
\* caller passed an options argument
makeOptions(self, given, options) ==
  IF self.cls = 1
  THEN getOptions(self, IF given THEN options ELSE NoOptions, "true", FALSE)
  ELSE IF given THEN options ELSE self.options

\* _make(wrap, options): the new instance
_make(d, chk, self, wrap, given, options) ==
  constructor(d.kind, d.kids, chk, self.cls, wrap,
              makeOptions(self, given, options))

-----------------------------------------------------------------------------
(* The operations.  Each yields a record                                   *)
(*   err : "none" or the error thrown                                      *)
(*   v   : the value returned                                              *)
(*   new : the instances constructed, to be appended to inst; the value    *)
(*         InstV(base + k) is the k-th of them (base = Len(inst))          *)
(*   log : the DOM / collaborator calls made, in order                     *)
(*   d   : the document after the operation                                *)

Res(err, v, new, lg, d) == [err |-> err, v |-> v, new |-> new, log |-> lg, d |-> d]

RECURSIVE Flatten(_)
\* a sequence of sequences, concatenated in order
Flatten(ss) == IF ss = <<>> THEN <<>> ELSE Head(ss) \o Flatten(Tail(ss))

\* the test of line 267 always taken
ExpandChildren_Always(self) == TRUE

\* this.options.expandChildren, the test of lines 188, 214 and 267
ExpandChildren(self) == Truthy(Opt(self.options, "expandChildren"))

\* makeOpts without the forced separateSingle
makeOpts_NoForce(self) ==
  [k \in {"expandChildren"} |-> Opt(self.options, "expandChildren")]

\* makeOpts of lines 288-292
makeOpts(self) ==
  [k \in {"expandChildren", "separateSingle"} |->
     IF k = "separateSingle" THEN "false"
     ELSE Opt(self.options, "expandChildren")]

\* get children(), lines 259-295.  si is the index of the receiver.
children(d, chk, self, si, base) ==
  LET mem == Members(d.kind, d.kids, self.wraps)
      made(c) == Res("none", InstV(base + 1),
                     <<_make(d, chk, self, c, TRUE, makeOpts(self))>>, <<>>, d)
  IN CASE ~self.isValid -> Res("none", InstV(si), <<>>, <<>>, d)
       [] self.isValid /\ self.isCollection ->
            IF ExpandChildren(self)
            THEN IF \E i \in DOMAIN mem : ~IsElement(d.kind, mem[i])
                 THEN \* node.children is undefined: not iterable
                      Res("TypeError", Undefined, <<>>, <<>>, d)
                 ELSE made(ArrayV(Flatten(
                        [i \in DOMAIN mem |-> Children(d.kind, d.kids, mem[i])])))
            ELSE Res("none", InstV(si), <<>>, <<>>, d)
       [] OTHER ->
            IF self.wraps.t = "node" /\ IsElement(d.kind, self.wraps.n)
            THEN made(LiveV(self.wraps.n))
            ELSE made(Undefined)

\* the test at the head of get and find: the first definition reads
\* this.isValid (lines 403, 484), the second one this.valid (lines 1216,
\* 1281), a property no instance has
ValidForQuery(self) == IF self.cls = 1 THEN self.isValid ELSE FALSE

\* the options get and find work with (lines 397, 469 / 1210, 1270)
QueryOptions(self, given, options) ==
  IF self.cls = 1
  THEN getOptions(self, IF given THEN options ELSE NoOptions, "undefined", TRUE)
  ELSE IF given THEN options ELSE self.options

\* the value returned by get and find: the raw result or a wrapper of it
\* (lines 451, 511)
Wrapped(d, chk, self, base, opts, err, result, lg) ==
  IF err # "none" THEN Res(err, Undefined, <<>>, lg, d)
  ELSE IF Truthy(OrDefault(opts, "wrapQueries", "true"))
       THEN Res("none", InstV(base + 1),
                <<_make(d, chk, self, result, FALSE, NoOptions)>>, lg, d)
       ELSE Res("none", result, <<>>, lg, d)

RECURSIVE FindLoop(_, _, _, _, _)
\* the loop of find over the members (lines 491-504): [items, log]
FindLoop(d, mem, sel, items, lg) ==
  IF mem = <<>> THEN [items |-> items, log |-> lg]
  ELSE IF IsElement(d.kind, Head(mem))
       THEN FindLoop(d, Tail(mem), sel,
              items \o querySelectorAll(d.kind, d.kids, d.className, Head(mem), sel),
              Append(lg, Call("querySelectorAll", Head(mem), StringV(sel), "")))
       ELSE FindLoop(d, Tail(mem), sel, items, lg)

\* find(query, options), lines 467-512 and 1270-1310
find(d, chk, self, base, query, given, options) ==
  LET opts == QueryOptions(self, given, options)
      loop == FindLoop(d, Members(d.kind, d.kids, self.wraps), query.s, <<>>, <<>>)
      one == Call("querySelectorAll", self.wraps.n, query, "")
  IN CASE query.t # "string" -> Res("TypeError", Undefined, <<>>, <<>>, d)
       [] query.t = "string" /\ ~ValidForQuery(self) ->
            Wrapped(d, chk, self, base, opts, "none", Null, <<>>)
       [] query.t = "string" /\ ValidForQuery(self) /\ self.isCollection ->
            Wrapped(d, chk, self, base, opts, "none", ArrayV(loop.items), loop.log)
       [] OTHER ->
            IF self.wraps.t = "node" /\ IsElement(d.kind, self.wraps.n)
            THEN Wrapped(d, chk, self, base, opts, "none",
                   NodeListV(querySelectorAll(d.kind, d.kids, d.className,
                                              self.wraps.n, query.s)), <<one>>)
            ELSE \* this.wraps.querySelectorAll is not a function
                 Res("TypeError", Undefined, <<>>, <<>>, d)

RECURSIVE GetLoop(_, _, _, _)
\* the loop of get over the members (lines 423-434): [elem, log]
GetLoop(d, mem, sel, lg) ==
  IF mem = <<>> THEN [elem |-> Undefined, log |-> lg]
  ELSE IF IsElement(d.kind, Head(mem))
       THEN LET subres == querySelector(d.kind, d.kids, d.className, Head(mem), sel)
                lg1 == Append(lg, Call("querySelector", Head(mem), StringV(sel), ""))
            IN IF subres # Null THEN [elem |-> subres, log |-> lg1]
               ELSE GetLoop(d, Tail(mem), sel, lg1)
       ELSE GetLoop(d, Tail(mem), sel, lg)

\* seq[k] of JavaScript, k counted from 0
AtIndex(q, k) == IF k + 1 \in DOMAIN q THEN NodeV(q[k + 1]) ELSE Undefined

\* get(query, options), lines 395-453 and 1210-1261, for a query that is a
\* number, a string or of a type get rejects
get(d, chk, self, si, base, query, given, options) ==
  LET opts == QueryOptions(self, given, options)
      ch == children(d, chk, self, si, base)
      chw == IF ch.new = <<>> THEN self.wraps ELSE ch.new[1].wraps
      loop == GetLoop(d, Members(d.kind, d.kids, self.wraps), query.s, <<>>)
      isElem == self.wraps.t = "node" /\ IsElement(d.kind, self.wraps.n)
  IN CASE ~ValidForQuery(self) ->
            Wrapped(d, chk, self, base, opts, "none", Null, <<>>)
       [] ValidForQuery(self) /\ query.t = "number" ->
            IF self.isCollection
            THEN Wrapped(d, chk, self, base, opts, ch.err,
                         AtIndex(Members(d.kind, d.kids, chw), query.n), <<>>)
            ELSE IF isElem
                 THEN Wrapped(d, chk, self, base, opts, "none",
                        AtIndex(Children(d.kind, d.kids, self.wraps.n), query.n), <<>>)
                 ELSE \* this.wraps.children is undefined
                      Res("TypeError", Undefined, <<>>, <<>>, d)
       [] ValidForQuery(self) /\ query.t = "string" ->
            IF self.isCollection
            THEN Wrapped(d, chk, self, base, opts, "none", loop.elem, loop.log)
            ELSE IF isElem
                 THEN Wrapped(d, chk, self, base, opts, "none",
                        querySelector(d.kind, d.kids, d.className, self.wraps.n, query.s),
                        <<Call("querySelector", self.wraps.n, query, "")>>)
                 ELSE Res("TypeError", Undefined, <<>>, <<>>, d)
       [] OTHER -> Res("TypeError", Undefined, <<>>, <<>>, d)

-----------------------------------------------------------------------------
(* add, lines 626-676.                                                     *)

\* content.cloneNode(true) (line 645): the clone and the document
\* holding it
CloneOne(d, n) == [c |-> NodeV(CloneRoot(d, n)), d |-> cloneNode(d, n)]

RECURSIVE CloneAll(_, _, _)
\* the clones of the elements of a collection (lines 651-656):
\* [ok, c: the sequence of clones so far, d]
CloneAll(d, src, acc) ==
  IF src = <<>> THEN [ok |-> TRUE, c |-> acc, d |-> d]
  ELSE IF ~CanClone(d, Head(src)) THEN [ok |-> FALSE, c |-> acc, d |-> d]
       ELSE CloneAll(cloneNode(d, Head(src)), Tail(src),
                     Append(acc, CloneRoot(d, Head(src))))

\* getContent() of lines 637-658: [ok, c: the content for one member, d].
\* ok is FALSE when the node pool of the model cannot hold the clone.
getContent(d, content) ==
  CASE content.t = "string" -> [ok |-> TRUE, c |-> content, d |-> d]
    [] content.t = "node" ->
         IF CanClone(d, content.n)
         THEN [ok |-> TRUE, c |-> CloneOne(d, content.n).c,
               d |-> CloneOne(d, content.n).d]
         ELSE [ok |-> FALSE, c |-> content, d |-> d]
    [] OTHER ->
         LET r == CloneAll(d, Members(d.kind, d.kids, content), <<>>)
         IN [ok |-> r.ok, c |-> ArrayV(r.c), d |-> r.d]

RECURSIVE AddLoop(_, _, _, _, _, _)
\* for (const node of this.wraps) addContent(node, getContent(), pos)
\* (lines 665-668).  The iterator reads this.wraps[i] and this.wraps.length
\* anew at every step.  The result is [err, log, d]; err = "PoolExhausted"
\* marks a run the node pool of the model cut short.
AddLoop(d, wraps, i, content, pos, lg) ==
  LET mem == Members(d.kind, d.kids, wraps)
      Step(gc) ==
        LET lg1 == Append(lg, Call("addContent", mem[i], gc.c, pos))
            After(r) ==
              IF r.err # "none" THEN [err |-> r.err, log |-> lg1, d |-> r.d]
              ELSE AddLoop(r.d, wraps, i + 1, content, pos, lg1)
        IN IF ~gc.ok THEN [err |-> "PoolExhausted", log |-> lg, d |-> d]
           ELSE After(addContent(gc.d, mem[i], gc.c, pos))
  IN IF i > Len(mem) THEN [err |-> "none", log |-> lg, d |-> d]
     ELSE Step(getContent(d, content))

\* content instanceof ElementsWrapper ? content.wraps : content
\* (lines 630-633)
Unwrap(insts, content) ==
  IF content.t = "inst" THEN insts[content.n].wraps ELSE content

\* is the content one that add can fan out over a collection
\* (lines 639-663)?
FanOutContent(d, chk, content) ==
  \/ content.t = "string"
  \/ InstanceOf(d.kind, content, "Element")
  \/ isCollection(d.kind, chk, content, "Element")

\* add(content, pos)
add(d, chk, insts, self, si, content, pos) ==
  LET c == Unwrap(insts, content)
      Looped(loop) ==
        Res(loop.err, IF loop.err = "none" THEN InstV(si) ELSE Undefined,
            <<>>, loop.log, loop.d)
      Single(one) ==
        Res(one.err, IF one.err = "none" THEN InstV(si) ELSE Undefined,
            <<>>, <<Call("addContent", self.wraps.n, c, pos)>>, one.d)
  IN CASE ~self.isValid -> Res("none", InstV(si), <<>>, <<>>, d)
       [] self.isValid /\ self.isCollection ->
            IF ~FanOutContent(d, chk, c)
            THEN Res("TypeError", Undefined, <<>>, <<>>, d)
            ELSE Looped(AddLoop(d, self.wraps, 1, c, pos, <<>>))
       [] OTHER -> Single(addContent(d, self.wraps.n, c, pos))

-----------------------------------------------------------------------------
(* set class, lines 148-168.                                               *)

\* a setter without the type test of lines 150-153: the value is
\* assigned as it is
setClass_NoTypeTest(d, self, value) ==
  LET mem == Members(d.kind, d.kids, self.wraps)
  IN CASE ~self.isValid -> [err |-> "none", className |-> d.className]
       [] self.isValid /\ self.isCollection ->
            [err |-> "none",
             className |-> [m \in Nodes |-> IF m \in Range(mem) THEN value.s
                                            ELSE d.className[m]]]
       [] OTHER ->
            [err |-> "none",
             className |-> [m \in Nodes |-> IF m = self.wraps.n THEN value.s
                                            ELSE d.className[m]]]

\* set class(className): [err, className of every node afterwards]
setClass(d, self, value) ==
  LET mem == Members(d.kind, d.kids, self.wraps)
  IN CASE value.t # "string" -> [err |-> "TypeError", className |-> d.className]
       [] value.t = "string" /\ ~self.isValid ->
            [err |-> "none", className |-> d.className]
       [] value.t = "string" /\ self.isValid /\ self.isCollection ->
            [err |-> "none",
             className |-> [m \in Nodes |-> IF m \in Range(mem) THEN value.s
                                            ELSE d.className[m]]]
       [] OTHER ->
            [err |-> "none",
             className |-> [m \in Nodes |-> IF m = self.wraps.n THEN value.s
                                            ELSE d.className[m]]]

-----------------------------------------------------------------------------
(* each, lines 842-871.                                                    *)

\* what the callback fn is called with: this, index, node, wrapper
\* (fn.call(node, i, node, this)); the callbacks of the model return the
\* arguments they got
FnCall(fn, this, index, node, wrapper) ==
  [fn |-> fn, this |-> this, index |-> index, node |-> node, wrapper |-> wrapper]

\* one EachResult: {fn, node, index, return}
EachResult(fn, node, index, rv) ==
  [fn |-> fn, node |-> node, index |-> index, return |-> rv]

\* an each that takes the loop of the collection branch for a single
\* target too
each_LoopOnly(d, self, si, fn) ==
  CASE fn.t # "function" -> [err |-> "TypeError", results |-> <<>>, calls |-> <<>>]
    [] fn.t = "function" /\ ~self.isValid ->
         [err |-> "none", results |-> <<>>, calls |-> <<>>]
    [] OTHER -> [err |-> "ReferenceError", results |-> <<>>, calls |-> <<>>]

\* each(fn): [err, results, calls].  fn.t = "function" for a callable.
\* In the collection branch the loop bound reads the variable node, which
\* is declared in the other branch only (lines 855, 864).
each(d, self, si, fn) ==
  CASE fn.t # "function" -> [err |-> "TypeError", results |-> <<>>, calls |-> <<>>]
    [] fn.t = "function" /\ ~self.isValid ->
         [err |-> "none", results |-> <<>>, calls |-> <<>>]
    [] fn.t = "function" /\ self.isValid /\ self.isCollection ->
         [err |-> "ReferenceError", results |-> <<>>, calls |-> <<>>]
    [] OTHER ->
         LET c == FnCall(fn.s, self.wraps, 0, self.wraps, si)
         IN [err |-> "none",
             results |-> <<EachResult(fn.s, self.wraps, 0, c)>>,
             calls |-> <<c>>]

-----------------------------------------------------------------------------
(* id, lines 109-124.                                                      *)

\* get id(): [err, v]
getId(d, self) ==
  CASE self.isCollection -> [err |-> "none", v |-> Undefined]
    [] ~self.isCollection /\ self.wraps.t \in {"null", "undefined"} ->
         \* this.wraps.id on null or undefined
         [err |-> "TypeError", v |-> Undefined]
    [] ~self.isCollection /\ self.wraps.t = "node"
         /\ IsElement(d.kind, self.wraps.n) ->
         [err |-> "none", v |-> StringV(d.id[self.wraps.n])]
    [] OTHER -> [err |-> "none", v |-> Undefined]

\* set id(value): [err, id: the id attributes after]
setId(d, self, value) ==
  CASE self.isCollection -> [err |-> "TypeError", id |-> d.id]
    [] ~self.isCollection /\ self.wraps.t \in {"null", "undefined"} ->
         \* this.wraps.id = id on null or undefined
         [err |-> "TypeError", id |-> d.id]
    [] ~self.isCollection /\ self.wraps.t = "node"
         /\ IsElement(d.kind, self.wraps.n) ->
         [err |-> "none", id |-> [d.id EXCEPT ![self.wraps.n] = value.s]]
    [] OTHER -> \* a property of an object that has no id attribute
         [err |-> "none", id |-> d.id]

-----------------------------------------------------------------------------
(* get class, firstElement, lastElement, first, last: lines 126-146 and    *)
(* 181-238.                                                                *)

\* node.classList, and a list of them
ClassListV(n) == [t |-> "classList", n |-> n, items |-> <<>>, s |-> ""]
ClassListsV(q) == [t |-> "classLists", n |-> 0, items |-> q, s |-> ""]

\* get class()
getClass(d, self) ==
  LET mem == Members(d.kind, d.kids, self.wraps)
      IsEl(m) == IsElement(d.kind, m)
  IN CASE ~self.isValid -> Res("none", Null, <<>>, <<>>, d)
       [] self.isValid /\ self.isCollection ->
            Res("none", ClassListsV(SelectSeq(mem, IsEl)), <<>>, <<>>, d)
       [] OTHER ->
            IF self.wraps.t = "node" /\ IsElement(d.kind, self.wraps.n)
            THEN Res("none", ClassListV(self.wraps.n), <<>>, <<>>, d)
            ELSE Res("none", Undefined, <<>>, <<>>, d)

\* node.firstElementChild (last = FALSE) or node.lastElementChild
\* (last = TRUE); undefined on a node that is no element
ElementChild(d, n, last) ==
  LET c == Children(d.kind, d.kids, n)
  IN IF ~IsElement(d.kind, n) THEN Undefined
     ELSE IF c = <<>> THEN Null
     ELSE NodeV(IF last THEN c[Len(c)] ELSE c[1])

\* get firstElement() (last = FALSE), get lastElement() (last = TRUE):
\* [err, v]
edgeElement(d, self, last) ==
  LET mem == Members(d.kind, d.kids, self.wraps)
      child == IF last THEN mem[Len(mem)] ELSE mem[1]
  IN CASE ~self.isValid -> [err |-> "none", v |-> Null]
       [] self.isValid /\ self.isCollection ->
            IF mem = <<>>
            THEN \* this.wraps[0] is undefined
                 IF ExpandChildren(self)
                 THEN [err |-> "TypeError", v |-> Undefined]
                 ELSE [err |-> "none", v |-> Undefined]
            ELSE IF ExpandChildren(self)
                 THEN [err |-> "none", v |-> ElementChild(d, child, last)]
                 ELSE [err |-> "none", v |-> NodeV(child)]
       [] OTHER ->
            IF self.wraps.t = "node"
            THEN [err |-> "none", v |-> ElementChild(d, self.wraps.n, last)]
            ELSE [err |-> "none", v |-> Undefined]

firstElement(d, self) == edgeElement(d, self, FALSE)

lastElement(d, self) == edgeElement(d, self, TRUE)

\* get first() (last = FALSE), get last() (last = TRUE):
\* this._make(this.firstElement)
edge(d, chk, self, base, last) ==
  LET e == edgeElement(d, self, last)
  IN IF e.err # "none" THEN Res(e.err, Undefined, <<>>, <<>>, d)
     ELSE Res("none", InstV(base + 1),
              <<_make(d, chk, self, e.v, FALSE, NoOptions)>>, <<>>, d)

-----------------------------------------------------------------------------
(* get wrappedChildren(), lines 309-331.                                   *)

\* a list of wrapper instances
InstListV(q) == [t |-> "instList", n |-> 0, items |-> q, s |-> ""]

\* the entries of a collection value as JavaScript values
Entries(d, v) ==
  LET mem == Members(d.kind, d.kids, v)
  IN [k \in DOMAIN mem |-> NodeV(mem[k])]

wrappedChildren(d, chk, self, si, base) ==
  LET Wrap(c) ==
        LET ch == IF c.new = <<>> THEN self ELSE c.new[1]
            b1 == base + Len(c.new)
            es == Entries(d, ch.wraps)
            made == [k \in DOMAIN es |->
                       _make(d, chk, self, es[k], FALSE, NoOptions)]
        IN CASE c.err # "none" -> Res(c.err, Undefined, <<>>, <<>>, d)
             [] c.err = "none" /\ ~ch.isValid ->
                  Res("none", InstListV(<<>>), c.new, <<>>, d)
             [] c.err = "none" /\ ch.isValid /\ ~ch.isCollection ->
                  Res("Error", Undefined, c.new, <<>>, d)
             [] OTHER ->
                  Res("none", InstListV([k \in DOMAIN es |-> b1 + k]),
                      c.new \o made, <<>>, d)
  IN IF ~self.isValid THEN Res("none", InstListV(<<>>), <<>>, <<>>, d)
     ELSE Wrap(children(d, chk, self, si, base))

-----------------------------------------------------------------------------
(* query(...args), lines 514-604 (first definition only).  The finder      *)
(* Q.find / Q.findWith of @lumjs/web-core is not part of this repository:  *)
(* mode says what it finds below a node: "none" (nothing), "one" (a        *)
(* single element, the first descendant) or "all" (a collection, every     *)
(* descendant).                                                            *)

FinderModes == {"none", "one", "all"}

\* find(node, ...args): a JavaScript value
Finder(d, n, mode) ==
  LET ds == Descendants(d.kind, d.kids, n)
  IN CASE mode = "none" \/ ds = <<>> -> Null
       [] mode = "one" /\ ds # <<>> -> NodeV(ds[1])
       [] OTHER -> NodeListV(ds)

RECURSIVE QueryLoop(_, _, _, _, _)
\* the loop of query over the members (lines 550-582): [items, log]
QueryLoop(d, mem, mode, items, lg) ==
  IF mem = <<>> THEN [items |-> items, log |-> lg]
  ELSE IF IsElement(d.kind, Head(mem))
       THEN LET subres == Finder(d, Head(mem), mode)
                lg1 == Append(lg, Call("find", Head(mem), StringV(mode), ""))
            IN QueryLoop(d, Tail(mem), mode,
                 items \o (CASE subres.t = "node" -> <<subres.n>>
                             [] subres.t = "nodelist" -> subres.items
                             [] OTHER -> <<>>),
                 lg1)
       ELSE QueryLoop(d, Tail(mem), mode, items, lg)

\* query(...args).  hasArgs: were arguments passed; copts: the compiled
\* options passed as the first argument (NoOptions for none); defThrows:
\* does def of @lumjs/core raise on a value that is no object
query(d, chk, self, base, hasArgs, copts, mode, defThrows) ==
  LET options == IF hasArgs /\ Truthy(Opt(copts, "WRAPPER_OPTS")) THEN copts
                 ELSE getOptions(self, NoOptions, "undefined", TRUE)
      wrap == Truthy(OrDefault(options, "wrapQueries", "true"))
      withInfo == Truthy(OrDefault(options, "queryDetails", "false"))
      loop == QueryLoop(d, Members(d.kind, d.kids, self.wraps), mode, <<>>, <<>>)
      single == IF self.wraps.t = "node"
                THEN Finder(d, self.wraps.n, mode) ELSE Null
      results == CASE ~hasArgs \/ ~self.isValid -> Null
                   [] hasArgs /\ self.isValid /\ self.isCollection ->
                        ArrayV(loop.items)
                   [] OTHER -> single
      lg == CASE ~hasArgs \/ ~self.isValid -> <<>>
              [] hasArgs /\ self.isValid /\ self.isCollection -> loop.log
              [] OTHER -> <<Call("find", self.wraps.n, StringV(mode), "")>>
  IN IF wrap
     THEN Res("none", InstV(base + 1),
              <<_make(d, chk, self, results, FALSE, NoOptions)>>, lg, d)
     ELSE IF withInfo /\ results.t \in {"null", "undefined"} /\ defThrows
          THEN Res("TypeError", Undefined, <<>>, lg, d)
          ELSE Res("none", results, <<>>, lg, d)

-----------------------------------------------------------------------------
(* addHTML and addText, lines 687-728; on, trigger, data, lines 750-803.   *)

\* the outcome of inserting a new text node at the position
TextOutcome(d, target, pos) ==
  CASE ~IsElement(d.kind, target) -> "TypeError"
    [] pos \in {"beforebegin", "afterend"} /\ Parent(d.kids, target) = 0
         -> "noop"
    [] FreeSeq(d.kind) = <<>> -> "PoolExhausted"
    [] OTHER -> "ok"

\* the document after target.insertAdjacentText(pos, text)
insertAdjacentText(d, target, pos) ==
  IF TextOutcome(d, target, pos) # "ok" THEN d
  ELSE LET tn == FreeSeq(d.kind)[1]
           p == IF pos \in {"beforebegin", "afterend"}
                THEN Parent(d.kids, target) ELSE target
           at == CASE pos = "beforebegin" -> IndexOf(d.kids[p], target)
                   [] pos = "afterend" -> IndexOf(d.kids[p], target) + 1
                   [] pos = "afterbegin" -> 1
                   [] OTHER -> Len(d.kids[p]) + 1
       IN [d EXCEPT !.kind[tn] = "Text", !.className[tn] = "", !.id[tn] = "",
                    !.kids[p] = InsertAt(d.kids[p], at, tn)]

\* addHTML(node, html, pos) and addText(node, text, pos) of
\* @lumjs/web-core: [err, d]
addMarkup(fn, d, node, text, pos) ==
  IF fn = "addHTML" THEN addContent(d, node, text, pos)
  ELSE [err |-> IF TextOutcome(d, node, pos) \in {"ok", "noop"} THEN "none"
                ELSE TextOutcome(d, node, pos),
        d |-> insertAdjacentText(d, node, pos)]

RECURSIVE MarkupLoop(_, _, _, _, _, _, _)
\* a loop that goes on to the next member after a failure
MarkupLoop_Continue(fn, d, wraps, i, text, pos, lg) ==
  LET mem == Members(d.kind, d.kids, wraps)
      lg1 == Append(lg, Call(fn, mem[i], text, pos))
      After(r) ==
        IF r.err # "none"
        THEN MarkupLoop(fn, d, wraps, i + 1, text, pos, lg1)
        ELSE MarkupLoop(fn, r.d, wraps, i + 1, text, pos, lg1)
  IN IF i > Len(mem) THEN [err |-> "none", log |-> lg, d |-> d]
     ELSE After(addMarkup(fn, d, mem[i], text, pos))

\* for (const node of this.wraps) addHTML(node, html, pos)
\* (lines 693-696, 719-722): [err, log, d]
MarkupLoop(fn, d, wraps, i, text, pos, lg) ==
  LET mem == Members(d.kind, d.kids, wraps)
      lg1 == Append(lg, Call(fn, mem[i], text, pos))
      After(r) ==
        IF r.err # "none" THEN [err |-> r.err, log |-> lg1, d |-> r.d]
        ELSE MarkupLoop(fn, r.d, wraps, i + 1, text, pos, lg1)
  IN IF i > Len(mem) THEN [err |-> "none", log |-> lg, d |-> d]
     ELSE After(addMarkup(fn, d, mem[i], text, pos))

\* addHTML(html, pos) (fn = "addHTML") and addText(text, pos)
\* (fn = "addText"): the value returned is this for an invalid instance
\* only, the other paths end without a return statement
addMarkupTo(fn, d, self, si, text, pos) ==
  LET Looped(loop) == Res(loop.err, Undefined, <<>>, loop.log, loop.d)
      Single(one) ==
        Res(one.err, Undefined, <<>>, <<Call(fn, self.wraps.n, text, pos)>>,
            one.d)
  IN CASE ~self.isValid -> Res("none", InstV(si), <<>>, <<>>, d)
       [] self.isValid /\ self.isCollection ->
            Looped(MarkupLoop(fn, d, self.wraps, 1, text, pos, <<>>))
       [] OTHER ->
            IF self.wraps.t = "node"
            THEN Single(addMarkup(fn, d, self.wraps.n, text, pos))
            ELSE Res("TypeError", Undefined, <<>>, <<>>, d)

addHTML(d, self, si, html, pos) == addMarkupTo("addHTML", d, self, si, html, pos)

addText(d, self, si, text, pos) == addMarkupTo("addText", d, self, si, text, pos)

\* one call of a collaborator that is handed a target as it is
TargetCall(fn, target) == [fn |-> fn, node |-> target, arg |-> Undefined, pos |-> ""]

\* on(...args): onEvent per member of a collection, else onEvent on
\* this.wraps, whatever it is; trigger(event) and get data() hand
\* this.wraps to the collaborator.  The calls made, in order.
targetCalls(op, d, self) ==
  LET es == Entries(d, self.wraps)
  IN IF op = "on" /\ self.isCollection
     THEN [k \in DOMAIN es |-> TargetCall("onEvent", es[k])]
     ELSE <<TargetCall(CASE op = "on" -> "onEvent"
                         [] op = "trigger" -> "trigger"
                         [] OTHER -> "getSymbolMap", self.wraps)>>

-----------------------------------------------------------------------------
(* The state machine.                                                      *)

\* the document the program starts on:
\*   1 -+- 2 --- 4
\*      +- 3 -+- 5          (3 is an SVGElement, the other elements
\*            +- 6           are HTMLElements)
\*   7 --- text 8           (7 is not in the tree of 1)
InitKind == [n \in Nodes |->
               CASE n = 3 -> "SVGElement"
                 [] n = 8 -> "Text"
                 [] n > 8 -> "free"
                 [] OTHER -> "HTMLElement"]
InitKids == [n \in Nodes |->
               CASE n = 1 -> <<2, 3>>
                 [] n = 2 -> <<4>>
                 [] n = 3 -> <<5, 6>>
                 [] n = 7 -> <<8>>
                 [] OTHER -> <<>>]

\* the field values of ret before any operation
NoRet ==
  [op |-> "none", self |-> 0, err |-> "none", v |-> Undefined,
   arg |-> Undefined, pos |-> "", given |-> FALSE, local |-> NoOptions,
   recompile |-> "undefined", mark |-> TRUE, o |-> NoOptions,
   results |-> <<>>, n0 |-> 0, ref |-> ""]

\* the document of the current state
Now == Doc(kind, kids, className, idAttr)

Init ==
  /\ kind = InitKind
  /\ kids = InitKids
  /\ \E S \in SUBSET {4, 5, 6} :
       className = [n \in Nodes |-> IF n \in S THEN "a" ELSE ""]
  /\ idAttr = [n \in Nodes |-> IF n = 2 THEN "x" ELSE ""]
  /\ itemCheck \in BOOLEAN
  /\ inst = <<>>
  /\ ret = NoRet
  /\ log = <<>>
  /\ nops = 0

\* the same, every class attribute empty
InitPlain == Init /\ \A n \in Nodes : className[n] = ""

\* an operation that leaves the document as it is
SameDoc == UNCHANGED <<kind, kids, className, idAttr, itemCheck>>

\* the document becomes d
SetDoc(d) ==
  /\ kind' = d.kind
  /\ kids' = d.kids
  /\ className' = d.className
  /\ idAttr' = d.id
  /\ UNCHANGED itemCheck

\* new ElementsWrapper(w, o) called by the user of the class
Construct(cls, w, o) ==
  /\ Len(inst) < MaxInst
  /\ \A i \in DOMAIN inst : inst[i].cls = cls
  /\ inst' = Append(inst, constructor(kind, kids, itemCheck, cls, w, o))
  /\ ret' = [NoRet EXCEPT !.op = "new", !.v = InstV(Len(inst) + 1),
                          !.arg = w, !.local = o, !.given = TRUE]
  /\ log' = <<>>
  /\ UNCHANGED nops
  /\ SameDoc

\* inst[i].children
GetChildren(i) ==
  LET Done(r) ==
        /\ nops < MaxOps
        /\ Len(inst) + Len(r.new) <= MaxInst
        /\ inst' = inst \o r.new
        /\ ret' = [NoRet EXCEPT !.op = "children", !.self = i, !.err = r.err,
                                !.v = r.v]
        /\ log' = r.log
        /\ nops' = nops + 1
        /\ SameDoc
  IN Done(children(Now, itemCheck, inst[i], i, Len(inst)))

\* inst[i].find(q, options); given = FALSE for find(q)
Find(i, q, given, options) ==
  LET Done(r) ==
        /\ nops < MaxOps
        /\ Len(inst) + Len(r.new) <= MaxInst
        /\ inst' = inst \o r.new
        /\ ret' = [NoRet EXCEPT !.op = "find", !.self = i, !.err = r.err,
                                !.v = r.v, !.arg = q, !.given = given,
                                !.local = options]
        /\ log' = r.log
        /\ nops' = nops + 1
        /\ SameDoc
  IN Done(find(Now, itemCheck, inst[i], Len(inst), q, given, options))

\* inst[i].get(q, options); given = FALSE for get(q)
Get(i, q, given, options) ==
  LET Done(r) ==
        /\ nops < MaxOps
        /\ Len(inst) + Len(r.new) <= MaxInst
        /\ inst' = inst \o r.new
        /\ ret' = [NoRet EXCEPT !.op = "get", !.self = i, !.err = r.err,
                                !.v = r.v, !.arg = q, !.given = given,
                                !.local = options]
        /\ log' = r.log
        /\ nops' = nops + 1
        /\ SameDoc
  IN Done(get(Now, itemCheck, inst[i], i, Len(inst), q, given, options))

\* inst[i].add(content, pos)
Add(i, content, pos) ==
  LET Done(r) ==
        /\ nops < MaxOps
        /\ UNCHANGED inst
        /\ ret' = [NoRet EXCEPT !.op = "add", !.self = i, !.err = r.err,
                                !.v = r.v, !.arg = content, !.pos = pos,
                                !.n0 = Len(Members(kind, kids, inst[i].wraps))]
        /\ log' = r.log
        /\ nops' = nops + 1
        /\ SetDoc(r.d)
  IN Done(add(Now, itemCheck, inst, inst[i], i, content, pos))

\* inst[i].class = value
SetClass(i, value) ==
  LET Done(r) ==
        /\ nops < MaxOps
        /\ UNCHANGED inst
        /\ ret' = [NoRet EXCEPT !.op = "setClass", !.self = i, !.err = r.err,
                                !.arg = value]
        /\ log' = <<>>
        /\ nops' = nops + 1
        /\ className' = r.className
        /\ UNCHANGED <<kind, kids, idAttr, itemCheck>>
  IN Done(setClass(Now, inst[i], value))

\* inst[i].getOptions(localOpts, recompile, mark)
GetOptions(i, localOpts, recompile, mark) ==
  /\ nops < MaxOps
  /\ inst[i].cls = 1
  /\ inst' = [inst EXCEPT ![i].options =
                getOptionsBase(inst[i], localOpts, recompile, mark)]
  /\ ret' = [NoRet EXCEPT !.op = "getOptions", !.self = i,
                          !.local = localOpts, !.recompile = recompile,
                          !.mark = mark,
                          !.o = getOptions(inst[i], localOpts, recompile, mark),
                          !.ref = getOptionsRef(inst[i], localOpts, recompile,
                                                mark)]
  /\ log' = <<>>
  /\ nops' = nops + 1
  /\ SameDoc

\* inst[i].each(fn)
Each(i, fn) ==
  LET Done(r) ==
        /\ nops < MaxOps
        /\ UNCHANGED inst
        /\ ret' = [NoRet EXCEPT !.op = "each", !.self = i, !.err = r.err,
                                !.arg = fn, !.results = r.results]
        /\ log' = r.calls
        /\ nops' = nops + 1
        /\ SameDoc
  IN Done(each(Now, inst[i], i, fn))

\* inst[i].id
GetId(i) ==
  LET Done(r) ==
        /\ nops < MaxOps
        /\ UNCHANGED inst
        /\ ret' = [NoRet EXCEPT !.op = "getId", !.self = i, !.err = r.err,
                                !.v = r.v]
        /\ log' = <<>>
        /\ nops' = nops + 1
        /\ SameDoc
  IN Done(getId(Now, inst[i]))

\* inst[i].id = value
SetId(i, value) ==
  LET Done(r) ==
        /\ nops < MaxOps
        /\ UNCHANGED inst
        /\ ret' = [NoRet EXCEPT !.op = "setId", !.self = i, !.err = r.err,
                                !.arg = value]
        /\ log' = <<>>
        /\ nops' = nops + 1
        /\ idAttr' = r.id
        /\ UNCHANGED <<kind, kids, className, itemCheck>>
  IN Done(setId(Now, inst[i], value))

\* inst[i].class
GetClass(i) ==
  LET Done(r) ==
        /\ nops < MaxOps
        /\ UNCHANGED inst
        /\ ret' = [NoRet EXCEPT !.op = "getClass", !.self = i, !.err = r.err,
                                !.v = r.v]
        /\ log' = <<>>
        /\ nops' = nops + 1
        /\ SameDoc
  IN Done(getClass(Now, inst[i]))

\* inst[i].firstElement (last = FALSE), inst[i].lastElement (last = TRUE)
EdgeElement(i, last) ==
  LET Done(r) ==
        /\ nops < MaxOps
        /\ UNCHANGED inst
        /\ ret' = [NoRet EXCEPT !.op = IF last THEN "lastElement" ELSE "firstElement",
                                !.self = i, !.err = r.err, !.v = r.v]
        /\ log' = <<>>
        /\ nops' = nops + 1
        /\ SameDoc
  IN Done(IF last THEN lastElement(Now, inst[i]) ELSE firstElement(Now, inst[i]))

\* inst[i].first (last = FALSE), inst[i].last (last = TRUE)
Edge(i, last) ==
  LET Done(r) ==
        /\ nops < MaxOps
        /\ Len(inst) + Len(r.new) <= MaxInst
        /\ inst' = inst \o r.new
        /\ ret' = [NoRet EXCEPT !.op = IF last THEN "last" ELSE "first",
                                !.self = i, !.err = r.err, !.v = r.v]
        /\ log' = <<>>
        /\ nops' = nops + 1
        /\ SameDoc
  IN Done(edge(Now, itemCheck, inst[i], Len(inst), last))

\* inst[i].wrappedChildren
WrappedChildren(i) ==
  LET Done(r) ==
        /\ nops < MaxOps
        /\ Len(inst) + Len(r.new) <= MaxInst
        /\ inst' = inst \o r.new
        /\ ret' = [NoRet EXCEPT !.op = "wrappedChildren", !.self = i,
                                !.err = r.err, !.v = r.v,
                                !.n0 = Len(inst)]
        /\ log' = <<>>
        /\ nops' = nops + 1
        /\ SameDoc
  IN Done(wrappedChildren(Now, itemCheck, inst[i], i, Len(inst)))

\* inst[i].query(...args)
Query(i, hasArgs, copts, mode, defThrows) ==
  LET Done(r) ==
        /\ nops < MaxOps
        /\ inst[i].cls = 1
        /\ Len(inst) + Len(r.new) <= MaxInst
        /\ inst' = inst \o r.new
        /\ ret' = [NoRet EXCEPT !.op = "query", !.self = i, !.err = r.err,
                                !.v = r.v, !.given = hasArgs, !.local = copts,
                                !.arg = StringV(mode)]
        /\ log' = r.log
        /\ nops' = nops + 1
        /\ SameDoc
  IN Done(query(Now, itemCheck, inst[i], Len(inst), hasArgs, copts, mode, defThrows))

\* inst[i].addHTML(text, pos) (fn = "addHTML"),
\* inst[i].addText(text, pos) (fn = "addText")
AddMarkup(i, fn, text, pos) ==
  LET Done(r) ==
        /\ nops < MaxOps
        /\ UNCHANGED inst
        /\ ret' = [NoRet EXCEPT !.op = fn, !.self = i, !.err = r.err,
                                !.v = r.v, !.arg = text, !.pos = pos,
                                !.n0 = Len(Members(kind, kids, inst[i].wraps))]
        /\ log' = r.log
        /\ nops' = nops + 1
        /\ SetDoc(r.d)
  IN Done(IF fn = "addHTML" THEN addHTML(Now, inst[i], i, text, pos) ELSE addText(Now, inst[i], i, text, pos))

\* inst[i].on(...), inst[i].trigger(event), inst[i].data: the wrapper
\* hands its target to the collaborator and returns what it gets
TargetOp(i, op) ==
  /\ nops < MaxOps
  /\ UNCHANGED inst
  /\ ret' = [NoRet EXCEPT !.op = op, !.self = i]
  /\ log' = targetCalls(op, Now, inst[i])
  /\ nops' = nops + 1
  /\ SameDoc

-----------------------------------------------------------------------------
(* The inputs of the operations.                                           *)

\* the sequences over S of length at most n
SeqsUpTo(S, n) == UNION {[1..k -> S] : k \in 0..n}

\* what the constructor is given: a node, nothing, an Array, a NodeList
\* (childNodes, a querySelectorAll result) or an HTMLCollection (children)
WrapInputs ==
  {NodeV(n) : n \in {1, 2, 4, 7, 8}} \cup {Null, Undefined}
  \cup {ArrayV(q) : q \in SeqsUpTo({2, 3, 8}, MaxLen)}
  \cup {NodeListV(<<>>), NodeListV(<<8>>), NodeListV(<<5, 6>>)}
  \cup {LiveV(n) : n \in {1, 2, 4, 7}}

\* every combination of the documented options
AllOptions ==
  {[k \in OptKeys \ {"WRAPPER_OPTS"} |->
      CASE k = "nodeClass" -> nc
        [] k = "separateSingle" -> ss
        [] k = "expandChildren" -> ec
        [] k = "wrapQueries" -> wq
        [] k = "queryDetails" -> qd
        [] OTHER -> ro] :
     nc \in {"undefined", "HTMLElement", "Element", "Node", "Object"},
     ss \in {"undefined", "true", "false"},
     ec \in {"undefined", "true", "false"},
     wq \in {"undefined", "true", "false"},
     qd \in {"undefined", "true", "false"},
     ro \in {"undefined", "true", "false"}}

\* the option object {k: x}
OneOption(k, x) == [j \in {k} |-> x]

\* a few option objects, for the operations after the construction
SomeOptions ==
  {NoOptions, OneOption("separateSingle", "false"),
   OneOption("expandChildren", "true"), OneOption("nodeClass", "Node"),
   OneOption("nodeClass", "HTMLElement"),
   OneOption("wrapQueries", "false"),
   [k \in {"separateSingle", "expandChildren"} |->
      "true"]}

-----------------------------------------------------------------------------
(* The constructor alone, on every combination of options.                 *)

CtorNext ==
  /\ inst = <<>>
  /\ \E cls \in {1, 2}, w \in WrapInputs, o \in AllOptions :
       Construct(cls, w, o)

SpecCtor == InitPlain /\ [][CtorNext]_vars

\* the node-capability class of an instance, options.nodeClass ?? Element
NodeClassOf(x) == OrDefault(x.options, "nodeClass", "Element")

\* was the instance x constructed over a collection value?
OverCollection(x) == x.wrapped.t \in {"array", "nodelist", "live"}

\* was the instance x constructed over a collection of exactly one node,
\* which passes the capability filter?
OverOneNode(x) ==
  /\ OverCollection(x)
  /\ Len(Members(kind, kids, x.wrapped)) = 1
  /\ InstanceOf(kind, NodeV(Members(kind, kids, x.wrapped)[1]), NodeClassOf(x))

\* C1: an instance constructed over a collection of exactly one
\* capability-passing node has isCollection = false and wraps equal to that
\* node when separateSingle is true or unset, and has isCollection = true
\* and wraps the one-member collection when separateSingle is false.
C1_CollapseLaw ==
  \A i \in DOMAIN inst :
    LET x == inst[i]
    IN (ret.op = "new" /\ ret.v = InstV(i) /\ OverOneNode(x)) =>
         IF Opt(x.options, "separateSingle") = "false"
         THEN x.isCollection /\ x.wraps = x.wrapped
         ELSE ~x.isCollection
              /\ x.wraps = NodeV(Members(kind, kids, x.wrapped)[1])

\* C1 witness: both cases of the law have happened on an HTMLCollection
C1_Witness ==
  /\ ret.op = "new"
  /\ OverOneNode(inst[1])
  /\ inst[1].wrapped = LiveV(2)
  /\ Opt(inst[1].options, "separateSingle") = "undefined"
  /\ inst[1].wraps = NodeV(4)

\* C2: an instance constructed over an empty collection has
\* isValid = false, whatever the options.
C2_EmptyNeverValid ==
  \A i \in DOMAIN inst :
    (OverCollection(inst[i]) /\ Members(kind, kids, inst[i].wrapped) = <<>>)
      => ~inst[i].isValid

-----------------------------------------------------------------------------
(* Traversal: one instance is constructed, then children is read from      *)
(* it and from the instances children returns.                             *)

TraverseNext ==
  \/ /\ inst = <<>>
     /\ \E cls \in {1, 2}, w \in WrapInputs, o \in SomeOptions :
          Construct(cls, w, o)
  \/ /\ inst # <<>>
     /\ \E i \in DOMAIN inst : GetChildren(i)

SpecTraverse == InitPlain /\ [][TraverseNext]_vars

\* C3: children of a collection instance whose expandChildren is off
\* returns that very instance, and constructs no instance.
C3_ChildrenIdentity ==
  [][(ret'.op = "children"
        /\ inst[ret'.self].isCollection
        /\ ~Truthy(Opt(inst[ret'.self].options, "expandChildren")))
      => (ret'.err = "none" /\ ret'.v = InstV(ret'.self) /\ inst' = inst)]_vars

\* C3 witness: children was read from a valid two-member collection
\* without expandChildren and gave the receiver back
C3_Witness ==
  /\ ret.op = "children"
  /\ inst[ret.self].isValid
  /\ inst[ret.self].isCollection
  /\ Len(Members(kind, kids, inst[ret.self].wraps)) = 2
  /\ ~Truthy(Opt(inst[ret.self].options, "expandChildren"))
  /\ ret.v = InstV(ret.self)

\* is x a valid single-node instance whose node has exactly one child
\* element?
SingleWithOneChild(x) ==
  /\ x.isValid
  /\ ~x.isCollection
  /\ x.wraps.t = "node"
  /\ IsElement(kind, x.wraps.n)
  /\ Len(Children(kind, kids, x.wraps.n)) = 1

\* C4: children of a valid single-node instance whose node has exactly one
\* child element returns a new instance with isCollection = true, whose
\* options have separateSingle = false and the parent's expandChildren.
C4_ChildSetStaysCollection ==
  (ret.op = "children" /\ SingleWithOneChild(inst[ret.self])) =>
    /\ ret.err = "none"
    /\ ret.v = InstV(Len(inst))
    /\ ret.v # InstV(ret.self)
    /\ inst[Len(inst)].isCollection
    /\ Opt(inst[Len(inst)].options, "separateSingle") = "false"
    /\ Opt(inst[Len(inst)].options, "expandChildren")
         = Opt(inst[ret.self].options, "expandChildren")

\* C4 witness: the parent instance has separateSingle = true
C4_Witness ==
  /\ ret.op = "children"
  /\ SingleWithOneChild(inst[ret.self])
  /\ Opt(inst[ret.self].options, "separateSingle") = "true"
  /\ inst[Len(inst)].isCollection
  /\ Len(Members(kind, kids, inst[Len(inst)].wraps)) = 1

-----------------------------------------------------------------------------
(* Lookup: one instance is constructed, then find and get are called on    *)
(* it and on the instances they return.                                    *)

\* the selectors of the model: ".a" selects the elements of class a
Selectors == {"a"}

\* the option arguments of find and get: none, or {wrapQueries: false}
QueryLocals ==
  {<<FALSE, NoOptions>>, <<TRUE, OneOption("wrapQueries", "false")>>}

QueryNext ==
  \/ /\ inst = <<>>
     /\ \E cls \in {1, 2}, w \in WrapInputs, o \in SomeOptions :
          Construct(cls, w, o)
  \/ /\ inst # <<>>
     /\ \E i \in DOMAIN inst, l \in QueryLocals,
           q \in {StringV(x) : x \in Selectors} \cup {NumberV(0)} :
          Find(i, q, l[1], l[2])
  \/ /\ inst # <<>>
     /\ \E i \in DOMAIN inst, l \in QueryLocals,
           q \in {StringV(x) : x \in Selectors} \cup {NumberV(0), NumberV(1), Null} :
          Get(i, q, l[1], l[2])

SpecQuery == Init /\ [][QueryNext]_vars

\* the value found by the last find or get: the raw result, or what the
\* wrapper returned was constructed over
Found == IF ret.v.t = "inst" THEN inst[ret.v.n].wrapped ELSE ret.v

\* the multi-selector matches of the member m of a collection
MatchesOf(m, sel) ==
  IF IsElement(kind, m) THEN querySelectorAll(kind, kids, className, m, sel)
  ELSE <<>>

\* does the member m pass the capability filter of the instance x?
Passes(x, m) == InstanceOf(kind, NodeV(m), NodeClassOf(x))

\* C5: find(selector) on a valid collection instance yields the
\* concatenation, in member order, of the matches of each
\* capability-passing member.
C5_FindFlattensInOrder ==
  LET x == inst[ret.self]
      mem == Members(kind, kids, x.wraps)
  IN (ret.op = "find" /\ ret.arg.t = "string" /\ x.isValid /\ x.isCollection)
      => /\ ret.err = "none"
         /\ Found.t \in {"array", "nodelist"}
         /\ Found.items =
              Flatten([i \in DOMAIN mem |->
                         IF Passes(x, mem[i]) THEN MatchesOf(mem[i], ret.arg.s)
                         ELSE <<>>])

\* the first member of mem with a single-selector match, 0 when none has
FirstHit(mem, sel) ==
  IF \E i \in DOMAIN mem : MatchesOf(mem[i], sel) # <<>>
  THEN CHOOSE i \in DOMAIN mem :
         /\ MatchesOf(mem[i], sel) # <<>>
         /\ \A j \in 1..(i - 1) : MatchesOf(mem[j], sel) = <<>>
  ELSE 0

\* C6: get(selector) on a valid collection instance returns the match of
\* the first member that has one and queries no member after that one; it
\* returns none when no member has a match.
C6_GetShortCircuits ==
  LET x == inst[ret.self]
      mem == Members(kind, kids, x.wraps)
      k == FirstHit(mem, ret.arg.s)
  IN (ret.op = "get" /\ ret.arg.t = "string" /\ x.isValid /\ x.isCollection)
      => /\ ret.err = "none"
         /\ IF k = 0 THEN Found.t \in {"null", "undefined"}
            ELSE /\ Found = NodeV(MatchesOf(mem[k], ret.arg.s)[1])
                 /\ \A c \in DOMAIN log :
                      /\ log[c].fn = "querySelector"
                      /\ log[c].node \in {mem[j] : j \in 1..k}
                 /\ Len(log) <= k

-----------------------------------------------------------------------------
(* Content: one instance is constructed, possibly a second one around a    *)
(* node to serve as content, then add is called.                           *)

\* the content handed to add: markup, an element, an Array of elements,
\* the second instance
AddContents ==
  {StringV("<p></p>"), NodeV(4), NodeV(7), ArrayV(<<7, 4>>)}
  \cup {InstV(j) : j \in (DOMAIN inst) \ {1}}

\* the receivers of add: single nodes, nothing, Arrays, a NodeList and
\* HTMLCollections
AddTargets ==
  {NodeV(2), Null, ArrayV(<<>>), ArrayV(<<2>>), ArrayV(<<2, 3>>),
   ArrayV(<<3, 8>>), NodeListV(<<5, 6>>), LiveV(1), LiveV(2)}

AddNext ==
  \/ /\ inst = <<>>
     /\ \E cls \in {1, 2}, w \in AddTargets,
           o \in {NoOptions, OneOption("separateSingle", "false")} :
          Construct(cls, w, o)
  \/ /\ Len(inst) = 1
     /\ nops = 0
     /\ \E w \in {NodeV(4), NodeV(7)} : Construct(inst[1].cls, w, NoOptions)
  \/ /\ inst # <<>>
     /\ \E c \in AddContents, pos \in Positions : Add(1, c, pos)

SpecAdd == InitPlain /\ [][AddNext]_vars

\* the nodes one call of the Content Inserter was handed
PassedNodes(c) == IF c.arg.t = "node" THEN <<c.arg.n>> ELSE c.arg.items

\* the case of C7: add was called on a valid collection instance whose
\* members are elements, with an element, an Array of elements or a
\* wrapper of one of these as content
C7_Case ==
  LET x == inst[ret'.self]
      X == Unwrap(inst, ret'.arg)
      mem == Members(kind, kids, x.wraps)
      src == IF X.t = "node" THEN <<X.n>> ELSE Members(kind, kids, X)
  IN /\ ret'.op = "add"
     /\ x.isValid /\ x.isCollection
     /\ \A i \in DOMAIN mem : IsElement(kind, mem[i])
     /\ X.t \in {"node", "array"}
     /\ src # <<>>
     /\ \A i \in DOMAIN src : IsElement(kind, src[i])

\* what C7 says of such a call: one call of the inserter per member, each
\* handed clones that did not exist before, deep and all distinct, and no
\* node of the document moved
C7_Effect ==
  LET x == inst[ret'.self]
      X == Unwrap(inst, ret'.arg)
      mem == Members(kind, kids, x.wraps)
      src == IF X.t = "node" THEN <<X.n>> ELSE Members(kind, kids, X)
      old == {m \in Nodes : kind[m] # "free"}
  IN /\ Len(log') <= Len(mem)
     /\ ret'.err # "PoolExhausted" =>
          (ret'.err = "none" /\ Len(log') = Len(mem))
     /\ \A c \in DOMAIN log' :
          /\ log'[c].fn = "addContent"
          /\ log'[c].node = mem[c]
          /\ log'[c].arg.t = X.t
          /\ Len(PassedNodes(log'[c])) = Len(src)
          /\ \A j \in DOMAIN src :
               /\ PassedNodes(log'[c])[j] \notin old
               /\ (SubtreeSeq(kids', src[j], MaxNodes)
                     = SubtreeSeq(kids, src[j], MaxNodes))
                  => SameTree(Doc(kind', kids', className', idAttr'),
                              PassedNodes(log'[c])[j], src[j], MaxNodes)
     /\ \A c1, c2 \in DOMAIN log' :
          \A j1, j2 \in DOMAIN src :
            (c1 # c2 \/ j1 # j2) =>
              PassedNodes(log'[c1])[j1] # PassedNodes(log'[c2])[j2]
     /\ \A p \in old : SelectSeqOf(kids'[p], old) = kids[p]

\* C7: add(nodeX) on a valid collection instance of n members hands the
\* Content Inserter n deep clones of nodeX, one per member, all distinct
\* and none of them nodeX, and moves no node of the document; the same
\* element by element for a collection as content and for a wrapper as
\* content.
C7_FanOutClones == [][C7_Case => C7_Effect]_vars

-----------------------------------------------------------------------------
(* The class setter: one instance is constructed, then class is assigned.  *)

ClassNext ==
  \/ /\ inst = <<>>
     /\ \E cls \in {1, 2}, w \in WrapInputs, o \in SomeOptions :
          Construct(cls, w, o)
  \/ /\ inst # <<>>
     /\ \E v \in {StringV("a"), StringV(""), NumberV(42), Null, Undefined} :
          SetClass(1, v)

SpecClass == InitPlain /\ [][ClassNext]_vars

\* C8: assigning a non-string to class raises a TypeError on every
\* instance and leaves the class attribute of every node as it was.
C8_ClassRejectsNonString ==
  [][(ret'.op = "setClass" /\ ret'.arg.t # "string")
      => (ret'.err = "TypeError" /\ className' = className)]_vars

\* C8 witness: 42 was assigned to the class of a valid collection whose
\* members have the class a, and they still have it
C8_Witness ==
  /\ ret.op = "setClass"
  /\ ret.arg = NumberV(42)
  /\ ret.err = "TypeError"
  /\ inst[1].isValid /\ inst[1].isCollection
  /\ Members(kind, kids, inst[1].wraps) = <<2, 3>>
  /\ className[2] = "a" /\ className[3] = "a"

-----------------------------------------------------------------------------
(* Options: one instance of the first definition is constructed, then      *)
(* getOptions is called, also with the object it returned before, and      *)
(* children is read.                                                       *)

\* the options the instance is constructed with
BaseOptions ==
  SomeOptions \cup {OneOption("wrapQueries", "true"),
                    OneOption("recompileOptions", "true")}

\* the localOpts arguments: absent, plain objects, objects that carry the
\* marker because getOptions of some instance returned them
LocalOptions ==
  {NoOptions, OneOption("wrapQueries", "false"),
   OneOption("expandChildren", "undefined"),
   Marked(NoOptions), Marked(OneOption("wrapQueries", "false"))}

OptionsNext ==
  \/ /\ inst = <<>>
     /\ \E w \in {NodeV(1), ArrayV(<<2, 3>>), Null}, o \in BaseOptions :
          Construct(1, w, o)
  \/ /\ inst # <<>>
     /\ \E i \in DOMAIN inst, l \in LocalOptions \cup {ret.o},
           rc \in {"undefined", "true", "false"}, mk \in BOOLEAN :
          GetOptions(i, l, rc, mk)
  \/ /\ inst # <<>>
     /\ \E i \in DOMAIN inst : GetChildren(i)

SpecOptions == InitPlain /\ [][OptionsNext]_vars

\* the documented option keys
PublicKeys == OptKeys \ {"WRAPPER_OPTS"}

\* in the object o every key of local has local's value and every other
\* key the value of base
Overrides(o, local, base) ==
  \A k \in PublicKeys :
    Opt(o, k) = IF k \in DOMAIN local THEN local[k] ELSE Opt(base, k)

\* C9 as stated: getOptions(local) returns a record in which every key of
\* local has local's value and every other key the instance's base value,
\* and the call leaves the instance's options as they were.
C9_OverridePrecedence ==
  [][(ret'.op = "getOptions" /\ ret'.recompile = "undefined" /\ ret'.mark)
      => /\ Overrides(ret'.o, ret'.local, inst[ret'.self].options)
         /\ inst' = inst]_vars

\* C9 amended: the same, unless local carries the already-compiled marker
\* and the instance's recompileOptions is not set; then getOptions(local)
\* returns local as it is.
C9_OverrideUnlessCompiled ==
  [][(ret'.op = "getOptions" /\ ret'.recompile = "undefined" /\ ret'.mark)
      => /\ IF Opt(ret'.local, "WRAPPER_OPTS") = "true"
               /\ Opt(inst[ret'.self].options, "recompileOptions")
                    \in {"undefined", "false"}
            THEN ret'.o = ret'.local
            ELSE Overrides(ret'.o, ret'.local, inst[ret'.self].options)
         /\ inst' = inst]_vars

\* C9 witness: base wrapQueries = true, local {wrapQueries: false},
\* effective wrapQueries = false
C9_Witness ==
  /\ ret.op = "getOptions"
  /\ ret.recompile = "undefined" /\ ret.mark
  /\ Opt(inst[ret.self].options, "wrapQueries") = "true"
  /\ ret.local = OneOption("wrapQueries", "false")
  /\ Opt(ret.o, "wrapQueries") = "false"

\* C16: if c was returned by getOptions with mark left at its default,
\* getOptions(c) with recompile false, or unspecified on an instance whose
\* recompileOptions is unset or false, returns c itself, unmodified; with
\* recompile = true it returns a newly built object.
C16_GetOptionsIdempotent ==
  [][(ret.op = "getOptions" /\ ret.mark
        /\ ret'.op = "getOptions" /\ ret'.local = ret.o)
      => /\ (\/ ret'.recompile = "false"
             \/ /\ ret'.recompile = "undefined"
                /\ Opt(inst[ret'.self].options, "recompileOptions")
                     \in {"undefined", "false"})
              => (ret'.ref = "localOpts" /\ ret'.o = ret.o)
         /\ ret'.recompile = "true" => ret'.ref = "compiledOpts"]_vars

\* C16 witness: getOptions was called on an instance with wrapQueries set,
\* with the marked object it returned before, and returned that object
C16_Witness ==
  /\ ret.op = "getOptions"
  /\ ret.recompile = "undefined"
  /\ ret.ref = "localOpts"
  /\ ret.local = Marked(OneOption("wrapQueries", "true"))
  /\ inst[ret.self].options = OneOption("wrapQueries", "true")
  /\ ret.o = ret.local
  /\ nops = 2

-----------------------------------------------------------------------------
(* each: one instance is constructed, then each is called.                 *)

EachNext ==
  \/ /\ inst = <<>>
     /\ \E cls \in {1, 2}, w \in WrapInputs, o \in SomeOptions :
          Construct(cls, w, o)
  \/ /\ inst # <<>>
     /\ \E f \in {FunctionV("f"), FunctionV("g"), Null, StringV("f")} :
          Each(1, f)

SpecEach == InitPlain /\ [][EachNext]_vars

\* C10: on a valid instance that is no collection, each(fn) calls fn
\* exactly once, with (0, the wrapped node, the wrapper), and returns one
\* record: fn, the wrapped node, index 0 and what fn returned.
C10_EachOnSingle ==
  LET x == inst[ret.self]
  IN (ret.op = "each" /\ ret.arg.t = "function" /\ x.isValid /\ ~x.isCollection)
      => /\ ret.err = "none"
         /\ log = <<FnCall(ret.arg.s, x.wraps, 0, x.wraps, ret.self)>>
         /\ ret.results = <<EachResult(ret.arg.s, x.wraps, 0, log[1])>>

\* C10 witness: each was called on a wrapper of the element 1
C10_Witness ==
  /\ ret.op = "each"
  /\ ret.arg = FunctionV("f")
  /\ inst[ret.self].isValid
  /\ inst[ret.self].wraps = NodeV(1)
  /\ Len(ret.results) = 1
  /\ ret.results[1].index = 0

\* C11: on a valid collection instance of n members, each(fn) calls fn
\* exactly n times, once per member in collection order with the member's
\* 0-based index and the member as node, and returns n records in the
\* same order.
C11_EachOnCollection ==
  LET x == inst[ret.self]
      mem == Members(kind, kids, x.wraps)
  IN (ret.op = "each" /\ ret.arg.t = "function" /\ x.isValid /\ x.isCollection)
      => /\ ret.err = "none"
         /\ Len(log) = Len(mem)
         /\ Len(ret.results) = Len(mem)
         /\ \A k \in DOMAIN mem :
              /\ log[k] = FnCall(ret.arg.s, NodeV(mem[k]), k - 1,
                                 NodeV(mem[k]), ret.self)
              /\ ret.results[k] = EachResult(ret.arg.s, NodeV(mem[k]), k - 1,
                                             log[k])

-----------------------------------------------------------------------------
(* Operations on instances that may be invalid: one instance is            *)
(* constructed, then operations are called on it and on the instances      *)
(* they return.                                                            *)

\* targets that give an invalid instance (nothing, an empty collection, a
\* text node) and two valid ones
ChainTargets ==
  {Null, Undefined, ArrayV(<<>>), NodeListV(<<>>), NodeV(8), LiveV(4),
   NodeV(4), ArrayV(<<2, 3>>)}

ChainNext ==
  \/ /\ inst = <<>>
     /\ \E cls \in {1, 2}, w \in ChainTargets : Construct(cls, w, NoOptions)
  \/ /\ inst # <<>>
     /\ \E i \in DOMAIN inst :
          \/ GetId(i)
          \/ GetClass(i)
          \/ SetClass(i, StringV("a"))
          \/ \E last \in BOOLEAN : EdgeElement(i, last)
          \/ \E last \in BOOLEAN : Edge(i, last)
          \/ GetChildren(i)
          \/ WrappedChildren(i)
          \/ \E q \in {StringV("a"), NumberV(0)} : Get(i, q, FALSE, NoOptions)
          \/ Find(i, StringV("a"), FALSE, NoOptions)
          \/ \E hasArgs \in BOOLEAN, mode \in {"one", "all"} :
               Query(i, hasArgs, NoOptions, mode, FALSE)
          \/ \E c \in {StringV("<p></p>"), NodeV(7)} : Add(i, c, "beforeend")
          \/ \E fn \in {"addHTML", "addText"}, pos \in {"beforeend", "afterend"} :
               AddMarkup(i, fn, StringV("x"), pos)
          \/ \E op \in {"on", "trigger", "data"} : TargetOp(i, op)
          \/ Each(i, FunctionV("f"))

SpecChain == InitPlain /\ [][ChainNext]_vars

\* the operations C12 lists, as the model names them
ChainOps ==
  {"getId", "getClass", "setClass", "firstElement", "lastElement", "first",
   "last", "children", "wrappedChildren", "get", "find", "query", "add",
   "addHTML", "addText", "on", "trigger", "data", "each"}

\* C12: on an instance with isValid = false none of the operations id
\* getter, class getter, class setter with a string, firstElement,
\* lastElement, first, last, children, wrappedChildren, get, find, query,
\* add, addHTML, addText, on, trigger, data, each(fn) raises.
C12_InvalidNeverRaises ==
  (ret.op \in ChainOps /\ ~inst[ret.self].isValid) => ret.err = "none"

\* C13: addHTML(html, pos) and addText(text, pos) return the instance
\* they were called on in every case: valid single target, valid
\* collection and invalid instance.
C13_MarkupReturnsThis ==
  (ret.op \in {"addHTML", "addText"} /\ ret.err = "none")
    => ret.v = InstV(ret.self)

\* is the target of the instance x, as the document is now, a single node
\* that passes the capability filter or a non-empty collection of such
\* nodes?
CurrentlyValid(x) ==
  \/ /\ x.wraps.t = "node"
     /\ InstanceOf(kind, x.wraps, NodeClassOf(x))
  \/ /\ x.wraps.t \in {"array", "nodelist", "live"}
     /\ Members(kind, kids, x.wraps) # <<>>
     /\ \A m \in Range(Members(kind, kids, x.wraps)) :
          InstanceOf(kind, NodeV(m), NodeClassOf(x))

\* C18: in every state reached by construction, children, get, find,
\* query, add, addHTML and addText on instances that share nodes, the
\* isValid flag of each instance is true iff its wraps is at this moment a
\* single capability-passing node or a non-empty collection; the wrapper
\* that children gave for a childless node is valid once the node has a
\* child.
C18_IsValidTracksWraps ==
  \A i \in DOMAIN inst : inst[i].isValid <=> CurrentlyValid(inst[i])

-----------------------------------------------------------------------------
(* id: one instance is constructed, then its id is read and set.           *)

IdNext ==
  \/ /\ inst = <<>>
     /\ \E cls \in {1, 2}, w \in WrapInputs, o \in SomeOptions :
          Construct(cls, w, o)
  \/ /\ inst # <<>>
     /\ \/ GetId(1)
        \/ \E x \in {StringV("x"), StringV("y")} : SetId(1, x)

SpecId == InitPlain /\ [][IdNext]_vars

\* C14: setting id on an instance that wraps a collection fails with an
\* InvalidOperation error, a kind distinct from the TypeError of malformed
\* arguments, and changes the identifier of no member; on an instance that
\* is no collection it sets the target's identifier; the id getter on a
\* collection yields undefined without raising.
C14_IdOnCollection ==
  [][LET x == inst[ret'.self]
     IN /\ (ret'.op = "setId" /\ x.isCollection)
             => (ret'.err = "InvalidOperation" /\ idAttr' = idAttr)
        /\ (ret'.op = "setId" /\ ~x.isCollection)
             => /\ ret'.err = "none"
                /\ x.wraps.t = "node" => idAttr'[x.wraps.n] = ret'.arg.s
        /\ (ret'.op = "getId" /\ x.isCollection)
             => (ret'.err = "none" /\ ret'.v = Undefined)]_vars

-----------------------------------------------------------------------------
(* The capability filter: one collection instance is constructed, then an  *)
(* operation that iterates its members is called.                          *)

\* collections with a member that is no HTMLElement (3), with one that is
\* no Element (8), and with elements only
FilterTargets ==
  {ArrayV(<<2, 8>>), ArrayV(<<2, 3>>), ArrayV(<<3, 2>>), LiveV(1),
   NodeListV(<<5, 6>>)}

FilterOptions ==
  {[k \in {"nodeClass", "expandChildren"} |->
      IF k = "nodeClass" THEN nc ELSE ec] :
     nc \in {"undefined", "HTMLElement", "Node"}, ec \in {"undefined", "true"}}

FilterNext ==
  \/ /\ inst = <<>>
     /\ \E w \in FilterTargets, o \in FilterOptions : Construct(1, w, o)
  \/ /\ inst # <<>>
     /\ \/ Get(1, StringV("a"), FALSE, NoOptions)
        \/ Find(1, StringV("a"), FALSE, NoOptions)
        \/ \E mode \in FinderModes : Query(1, TRUE, NoOptions, mode, FALSE)
        \/ GetChildren(1)
        \/ \E last \in BOOLEAN : EdgeElement(1, last)
        \/ \E c \in {StringV("<p></p>"), NodeV(7)} : Add(1, c, "beforeend")
        \/ \E fn \in {"addHTML", "addText"} :
             AddMarkup(1, fn, StringV("x"), "beforeend")

SpecFilter == Init /\ [][FilterNext]_vars

\* does the node m pass the capability filter of the instance x?
PassesFilter(x, m) ==
  InstanceOf(kind, NodeV(m), OrDefault(x.options, "nodeClass", "Element"))

\* C15: when an operation iterates the members of a collection instance,
\* a member failing options.nodeClass (default Element) is skipped:
\* get / find / query do not query it, children / firstElement /
\* lastElement do not descend into it, add / addHTML / addText do not call
\* the Content Inserter on it.
C15_FilterSkips ==
  LET x == inst[ret.self]
      called == {"get", "find", "query", "add", "addHTML", "addText"}
  IN (ret.self # 0 /\ x.isValid /\ x.isCollection) =>
       /\ ret.op \in called =>
            \A c \in DOMAIN log : PassesFilter(x, log[c].node)
       /\ (ret.op = "children" /\ ret.err = "none" /\ ret.v # InstV(ret.self)) =>
            \A k \in DOMAIN inst[ret.v.n].wraps.items :
              PassesFilter(x, Parent(kids, inst[ret.v.n].wraps.items[k]))
       /\ (ret.op \in {"firstElement", "lastElement"} /\ ExpandChildren(x)
             /\ ret.v.t = "node") =>
            PassesFilter(x, Parent(kids, ret.v.n))
       /\ (ret.op \in {"children", "firstElement", "lastElement"}) =>
            ret.err = "none"

-----------------------------------------------------------------------------
(* Instances built through _make: one instance of the first definition is  *)
(* constructed by the caller, with options that may be the compiled        *)
(* options of another instance; every later instance is built by _make.    *)

MakeOptions ==
  {NoOptions, OneOption("expandChildren", "true"), Marked(NoOptions),
   Marked(OneOption("wrapQueries", "true"))}

MakeNext ==
  \/ /\ inst = <<>>
     /\ \E w \in {NodeV(1), NodeV(4), ArrayV(<<2, 3>>), Null},
           o \in MakeOptions : Construct(1, w, o)
  \/ /\ inst # <<>>
     /\ \E i \in DOMAIN inst :
          \/ GetChildren(i)
          \/ \E last \in BOOLEAN : Edge(i, last)
          \/ WrappedChildren(i)
          \/ \E given \in BOOLEAN, o \in {NoOptions, Marked(NoOptions)} :
               \/ Get(i, StringV("a"), given, o)
               \/ Find(i, StringV("a"), given, o)
               \/ Query(i, TRUE, o, "all", FALSE)
          \/ \E l \in {NoOptions, OneOption("wrapQueries", "false"),
                       Marked(NoOptions)},
                rc \in {"undefined", "true", "false"} :
               GetOptions(i, l, rc, FALSE)

SpecMake == InitPlain /\ [][MakeNext]_vars

\* does the option object o carry the already-compiled marker?
CarriesMarker(o) == Opt(o, "WRAPPER_OPTS") # "undefined"

\* C17: the options record of every instance built through _make does not
\* carry the already-compiled marker, for any parent instance and any
\* override object; getOptions(local, recompile, false) never returns an
\* object carrying the marker.
C17_NoMarkerThroughMake ==
  /\ \A i \in DOMAIN inst : i > 1 => ~CarriesMarker(inst[i].options)
  /\ (ret.op = "getOptions" /\ ~ret.mark) => ~CarriesMarker(ret.o)

-----------------------------------------------------------------------------
(* Fan-out that fails part way: collections holding a Text node or an      *)
(* element without parent receive add, addHTML and addText.                *)

\* the receivers: Arrays and a NodeList with a member the inserter
\* rejects, and receivers it accepts
FanTargets ==
  {ArrayV(<<2, 8>>), ArrayV(<<8, 2>>), NodeListV(<<5, 8, 6>>),
   ArrayV(<<2, 7>>), ArrayV(<<7, 2>>), ArrayV(<<2, 3>>), LiveV(3), NodeV(2)}

FanNext ==
  \/ /\ inst = <<>>
     /\ \E cls \in {1, 2}, w \in FanTargets : Construct(cls, w, NoOptions)
  \/ /\ inst # <<>>
     /\ \E pos \in Positions :
          \/ \E c \in {StringV("<p></p>"), NodeV(4)} : Add(1, c, pos)
          \/ \E fn \in {"addHTML", "addText"} :
               AddMarkup(1, fn, StringV("x"), pos)

SpecFan == InitPlain /\ [][FanNext]_vars

\* does the Content Inserter fail on the logged call c, in the document
\* kd: the target is no element, or markup goes next to a target without
\* parent
InserterFails(kn, kd, c) ==
  \/ ~IsElement(kn, c.node)
  \/ /\ c.fn \in {"addContent", "addHTML"}
     /\ c.arg.t = "string"
     /\ c.pos \in {"beforebegin", "afterend"}
     /\ Parent(kd, c.node) = 0

\* the node that receives what the logged call c inserts; 0 for none
InsertParent(kd, c) ==
  IF c.pos \in {"beforebegin", "afterend"} THEN Parent(kd, c.node) ELSE c.node

\* the case of C19: add, addHTML or addText on a valid collection has
\* called the inserter on a member it fails on
C19_Case ==
  /\ ret'.op \in {"add", "addHTML", "addText"}
  /\ inst[ret'.self].isValid /\ inst[ret'.self].isCollection
  /\ ret'.err # "PoolExhausted"
  /\ \E c \in DOMAIN log' : InserterFails(kind', kids', log'[c])

\* what C19 says of such a call: it fails, the failing call is the last
\* one, every earlier member holds the node inserted for it, and nothing
\* else was inserted
C19_Effect ==
  LET k == CHOOSE c \in DOMAIN log' :
             /\ InserterFails(kind', kids', log'[c])
             /\ \A b \in 1..(c - 1) : ~InserterFails(kind', kids', log'[b])
      new == {n \in Nodes : kind[n] = "free" /\ kind'[n] # "free"}
      placed == {n \in new : Parent(kids', n) # 0}
      served == {c \in 1..(k - 1) : InsertParent(kids', log'[c]) # 0}
  IN /\ ret'.err # "none"
     /\ Len(log') = k
     /\ \A c \in served :
          \E n \in placed : Parent(kids', n) = InsertParent(kids', log'[c])
     /\ Cardinality(placed) = Cardinality(served)
     /\ \A n \in Nodes \ new : kids'[n] # kids[n] =>
          \E c \in served : n = InsertParent(kids', log'[c])

\* C19: when add, addHTML or addText fans out over a collection and the
\* Content Inserter fails on member k, the call fails at once: members
\* 0..k-1 keep the content inserted into them and the members after k
\* receive none.
C19_FanOutFailure == [][C19_Case => C19_Effect]_vars

\* C19 witness: addHTML on the NodeList <<5, 8, 6>> has failed on the Text
\* node 8, after it gave node 5 a child and before it reached node 6
C19_Witness ==
  /\ ret.op = "addHTML"
  /\ ret.err = "TypeError"
  /\ inst[ret.self].wraps = NodeListV(<<5, 8, 6>>)
  /\ Len(log) = 2
  /\ kids[5] # <<>>
  /\ kids[6] = <<>>

-----------------------------------------------------------------------------
(* wrappedChildren: instances over every input and with the options its    *)
(* path reads, alone and after children or add has run.                    *)

\* the options that the constructor, children and _make read
WrappedOptions ==
  {[k \in {"nodeClass", "separateSingle", "expandChildren"} |->
      CASE k = "nodeClass" -> nc
        [] k = "separateSingle" -> ss
        [] OTHER -> ec] :
     nc \in {"undefined", "HTMLElement", "Node", "Object"},
     ss \in {"undefined", "false"},
     ec \in {"undefined", "true"}}

WrappedNext ==
  \/ /\ inst = <<>>
     /\ \E cls \in {1, 2}, w \in WrapInputs, o \in WrappedOptions :
          Construct(cls, w, o)
  \/ /\ inst # <<>>
     /\ \E i \in DOMAIN inst :
          \/ WrappedChildren(i)
          \/ GetChildren(i)
          \/ Add(i, StringV("<p></p>"), "beforeend")

SpecWrapped == InitPlain /\ [][WrappedNext]_vars

-----------------------------------------------------------------------------
(* firstElement and lastElement against children and get(0): one instance  *)
(* is constructed, then the accessors are read.                            *)

\* the receivers: single elements, collections whose first or last
\* member has no child element, and others
EdgeTargets ==
  {NodeV(1), NodeV(2), NodeV(4), Null, ArrayV(<<2, 3>>), ArrayV(<<4, 3>>),
   ArrayV(<<3, 4>>), NodeListV(<<5, 6>>), LiveV(1), LiveV(3)}

EdgeOptions ==
  {NoOptions, OneOption("expandChildren", "true"),
   OneOption("separateSingle", "false"),
   [k \in {"separateSingle", "expandChildren"} |->
      IF k = "separateSingle" THEN "false" ELSE "true"]}

EdgeNext ==
  \/ /\ inst = <<>>
     /\ \E cls \in {1, 2}, w \in EdgeTargets, o \in EdgeOptions :
          Construct(cls, w, o)
  \/ /\ inst # <<>>
     /\ \/ \E last \in BOOLEAN : EdgeElement(1, last)
        \/ Get(1, NumberV(0), TRUE, OneOption("wrapQueries", "false"))
        \/ GetChildren(1)

SpecEdge == InitPlain /\ [][EdgeNext]_vars

\* the node list that the children result of the instance x wraps, as
\* the document is now; <<>> when children raises or wraps no collection
ChildList(x, si) ==
  LET c == children(Now, itemCheck, x, si, Len(inst))
      ch == IF c.new = <<>> THEN x ELSE c.new[1]
  IN IF c.err = "none" /\ ch.wraps.t \in {"array", "nodelist", "live"}
     THEN Members(kind, kids, ch.wraps)
     ELSE <<>>

\* C21: for every valid instance whose children result wraps a non-empty
\* node list, firstElement is the first entry and lastElement the last
\* entry of that list, and get(0, {wrapQueries: false}) returns the node
\* that firstElement returns; for single targets and for collections with
\* expandChildren off or on.
C21_EdgesOfChildren ==
  LET x == inst[1]
      list == ChildList(x, 1)
  IN (inst # <<>> /\ x.isValid /\ list # <<>>) =>
       /\ ret.op = "firstElement" =>
            (ret.err = "none" /\ ret.v = NodeV(list[1]))
       /\ ret.op = "lastElement" =>
            (ret.err = "none" /\ ret.v = NodeV(list[Len(list)]))
       /\ (ret.op = "get" /\ ret.arg = NumberV(0)) =>
            (ret.err = "none" /\ ret.v = firstElement(Now, x).v)

-----------------------------------------------------------------------------
(* add, addHTML and addText on the live child list: an instance is         *)
(* constructed, children may be read, then content is added.               *)

\* the receivers: single elements (for children), an HTMLCollection, an
\* Array and a NodeList; every member is an element with a parent
LiveTargets ==
  {NodeV(1), NodeV(3), LiveV(1), ArrayV(<<2, 3>>), NodeListV(<<5, 6>>)}

LiveNext ==
  \/ /\ inst = <<>>
     /\ \E cls \in {1, 2}, w \in LiveTargets : Construct(cls, w, NoOptions)
  \/ /\ inst # <<>>
     /\ \E i \in DOMAIN inst :
          \/ GetChildren(i)
          \/ \E c \in {StringV("<p></p>"), NodeV(4)}, pos \in Positions :
               Add(i, c, pos)
          \/ \E fn \in {"addHTML", "addText"}, pos \in Positions :
               AddMarkup(i, fn, StringV("x"), pos)

SpecLive == InitPlain /\ [][LiveNext]_vars

\* C22: add, addHTML and addText on a valid collection instance terminate
\* and call the Content Inserter exactly once per member the collection
\* had when the call started, also on the live child list that children
\* gave for a single target and at the positions beforebegin and afterend,
\* which grow that list during the iteration.  (A run that does not end
\* shows as more calls than members, cut short by the node pool.)
C22_OncePerMember ==
  [][(/\ ret'.op \in {"add", "addHTML", "addText"}
      /\ inst[ret'.self].isValid
      /\ inst[ret'.self].isCollection)
     => /\ Len(log') <= ret'.n0
        /\ ret'.err # "PoolExhausted" =>
             (ret'.err = "none" /\ Len(log') = ret'.n0)]_vars

====
